---- MODULE Spec2Model ----
(***************************************************************************)
(* three-interact: the per-object event registry (Interactable), the event *)
(* record (InteractEvent) and the coordinator (InteractManager).           *)
(*                                                                         *)
(* Handlers are user callbacks.  A handler is named by what it does when   *)
(* it is invoked with an event on the handle it is registered on:          *)
(*   "nop"      returns at once                                            *)
(*   "stop"     calls event.stopPropagation()                              *)
(*   "offSelf"  calls off(event.type, itself) on its handle                *)
(*   "stopOnce" calls event.stopPropagation(), then off(event.type, itself)*)
(*   "offNop"   calls off(event.type, nop) on its handle (a sibling)       *)
(*   "rm1".."rm3"  call manager.remove(object 1..3)                        *)
(* Every entry point of the coordinator runs synchronously to completion,  *)
(* so each is one action; what happened inside it is kept in log.          *)
(***************************************************************************)
EXTENDS Integers, Sequences, FiniteSets, TLC

\* ---------------------------------------------------------------- bounds
MaxHandles == 2     \* Interactable instances ever constructed for one object
MaxRegistered == 2  \* handlers registered at one time with a coordinator
MaxHandlers == 3    \* handlers registered at one time on a handle used alone

\* ------------------------------------------------------------ vocabulary
None == 0                       \* null (activeObject, dragObject)
Obj == {1, 2, 3}                \* THREE.Object3D identities
Undefined == "undefined"        \* an omitted handler argument
NoHandle == <<0, 0>>            \* no Interactable

InteractEventType ==
  {"click", "drag", "pointerdown", "pointerup", "pointermove",
   "pointerenter", "pointerleave", "wheel"}

InteractEventHandler ==
  {"nop", "stop", "offSelf", "offNop", "stopOnce", "rm1", "rm2", "rm3"}

Zero == <<0, 0>>
Positions == {<<0, 0>>, <<5, 10>>}      \* clientX, clientY of a sample

\* The objects along the pointer's ray, nearest first.
Rays == {<<>>, <<1>>, <<2>>, <<3>>, <<1, 2>>, <<1, 3>>, <<2, 3>>, <<1, 2, 3>>}

VARIABLES
  interactables,      \* Map<Object3D, Interactable>: object -> handle
  made,               \* object -> how many Interactables were constructed for it
  eventHandlers,      \* handle -> Map<string, InteractEventHandler[]>
  hoveredObjects,     \* Map<Object3D, boolean>, as its keys in insertion order
  activeObject,
  dragObject,
  lastMousePosition,
  log,                \* what the last operation did, step by step
  last,               \* the last operation, its arguments and the state before it
  hoverRun            \* the run of pointermove samples with hit lists [A], [], []

vars == <<interactables, made, eventHandlers, hoveredObjects,
          activeObject, dragObject, lastMousePosition, log, last, hoverRun>>

\* ------------------------------------------------------------ Map helpers
EmptyMap == [x \in {} |-> <<>>]
MapSet(m, k, v) == [x \in (DOMAIN m) \cup {k} |-> IF x = k THEN v ELSE m[x]]
MapDelete(m, k) == [x \in (DOMAIN m) \ {k} |-> m[x]]
MapGet(m, k) == IF k \in DOMAIN m THEN m[k] ELSE <<>>

Without(s, x) == LET keep(y) == y # x IN SelectSeq(s, keep)
Elems(s) == {s[i] : i \in 1..Len(s)}

\* Array.prototype.indexOf: first index holding x, 0 when there is none
IndexOf(s, x) ==
  IF \E i \in 1..Len(s) : s[i] = x
  THEN CHOOSE i \in 1..Len(s) : s[i] = x /\ \A j \in 1..(i - 1) : s[j] # x
  ELSE 0

\* Array.prototype.splice(index, 1)
Splice1(s, i) == [j \in 1..(Len(s) - 1) |-> IF j < i THEN s[j] ELSE s[j + 1]]

\* An Interactable instance is named by the object it wraps and by its rank
\* among the instances constructed for that object.
getObject(hd) == hd[1]

\* ------------------------------------------------------------ InteractEvent
\* (InteractEvent whose delta starts at (1, 1))
InteractEvent_UnitDelta(type, target) ==
  [type |-> type, target |-> target, delta |-> <<1, 1>>, stopped |-> FALSE]

InteractEvent(type, target) ==
  [type |-> type, target |-> target, delta |-> Zero, stopped |-> FALSE]

stopPropagation(ev) == [ev EXCEPT !.stopped = TRUE]

\* ------------------------------------------------------------ Interactable
\* on(type, handler), on the handler map m of one handle
on(m, type, handler) ==
  LET m1 == IF type \notin DOMAIN m THEN MapSet(m, type, <<>>) ELSE m
  IN MapSet(m1, type, Append(m1[type], handler))

\* (off that removes every entry equal to handler)
off_RemovesAll(m, type, handler) ==
  IF handler = Undefined
  THEN MapDelete(m, type)
  ELSE IF type \in DOMAIN m
       THEN LET spliced == Without(m[type], handler)
            IN IF Len(spliced) = 0 THEN MapDelete(m, type)
               ELSE MapSet(m, type, spliced)
       ELSE m

\* (off that takes index 0 for "not found")
off_SkipsFirst(m, type, handler) ==
  IF handler = Undefined
  THEN MapDelete(m, type)
  ELSE IF type \in DOMAIN m
       THEN LET handlers == m[type]
                index == IndexOf(handlers, handler)
                spliced == IF index > 1 THEN Splice1(handlers, index) ELSE handlers
            IN IF Len(spliced) = 0 THEN MapDelete(m, type)
               ELSE MapSet(m, type, spliced)
       ELSE m

\* off(type, handler?)
off(m, type, handler) ==
  IF handler = Undefined
  THEN MapDelete(m, type)
  ELSE IF type \in DOMAIN m
       THEN LET handlers == m[type]
                index == IndexOf(handlers, handler)
                spliced == IF index # 0 THEN Splice1(handlers, index) ELSE handlers
            IN IF Len(spliced) = 0 THEN MapDelete(m, type)
               ELSE MapSet(m, type, spliced)
       ELSE m

\* (removeAll that clears the click handlers only)
removeAll_ClickOnly(m) == MapDelete(m, "click")

\* removeAll()
removeAll(m) == EmptyMap

\* ------------------------------------------------------------ log entries
Entry(t, k, o, hd, h, ev, M) ==
  [t |-> t, k |-> k, o |-> o, hd |-> hd, h |-> h,
   delta |-> ev.delta, stopped |-> ev.stopped,
   drag |-> M.drag, act |-> M.act, ret |-> FALSE, reg |-> TRUE]

Logged(M, e) == [M EXCEPT !.log = Append(@, e)]

\* The coordinator's fields and the handler maps, as one value that the
\* synchronous call chain of an entry point threads through.
Machine ==
  [its |-> interactables, eh |-> eventHandlers, hov |-> hoveredObjects,
   act |-> activeObject, drag |-> dragObject, log |-> <<>>]

\* ------------------------------------------------------------ remove
\* (remove that empties hoveredObjects)
remove_EvictsAll(M, object) ==
  [M EXCEPT !.its = MapDelete(@, object),
            !.hov = <<>>,
            !.act = IF @ = object THEN None ELSE @,
            !.drag = IF @ = object THEN None ELSE @]

\* (remove that leaves the registry entry)
remove_KeepsEntry(M, object) ==
  [M EXCEPT !.hov = Without(@, object),
            !.act = IF @ = object THEN None ELSE @,
            !.drag = IF @ = object THEN None ELSE @]

\* (remove that leaves dragObject alone)
remove_KeepsDrag(M, object) ==
  [M EXCEPT !.its = MapDelete(@, object),
            !.hov = Without(@, object),
            !.act = IF @ = object THEN None ELSE @]

\* InteractManager.remove(object)
remove(M, object) ==
  [M EXCEPT !.its = MapDelete(@, object),
            !.hov = Without(@, object),
            !.act = IF @ = object THEN None ELSE @,
            !.drag = IF @ = object THEN None ELSE @]

\* ------------------------------------------------------------ handlers
RemovedBy(h) == CASE h = "rm1" -> 1 [] h = "rm2" -> 2 [] h = "rm3" -> 3

\* handler(event): what the callback named h does, invoked on handle hd
Invoke(M, ev, hd, h) ==
  CASE h = "nop" -> [M |-> M, ev |-> ev]
    [] h = "stop" -> [M |-> M, ev |-> stopPropagation(ev)]
    [] h = "offSelf" ->
         [M |-> [M EXCEPT !.eh[hd] = off(@, ev.type, h)], ev |-> ev]
    [] h = "stopOnce" ->
         [M |-> [M EXCEPT !.eh[hd] = off(@, ev.type, h)], ev |-> stopPropagation(ev)]
    [] h = "offNop" ->
         [M |-> [M EXCEPT !.eh[hd] = off(@, ev.type, "nop")], ev |-> ev]
    [] h \in {"rm1", "rm2", "rm3"} ->
         [M |-> remove(M, RemovedBy(h)), ev |-> ev]

\* ------------------------------------------------------------ dispatchEvent
\* The array that dispatchEvent holds in its local `handlers`.  off() splices
\* that very array in place and drops the map entry once it is empty, and no
\* handler of this model registers during a dispatch, so at every moment the
\* array is the map's entry, or empty when the entry is gone.
LiveHandlers(M, hd, type) == MapGet(M.eh[hd], type)

\* handlers.forEach(handler => handler(event)): the length is read once, and an
\* index that the array no longer has is passed over.
RECURSIVE forEach(_, _, _, _, _)
forEach(M, ev, hd, k, len) ==
  IF k > len THEN [M |-> M, ev |-> ev]
  ELSE LET handlers == LiveHandlers(M, hd, ev.type)
       IN IF k > Len(handlers) THEN forEach(M, ev, hd, k + 1, len)
          ELSE LET h == handlers[k]
                   M1 == Logged(M, Entry("call", ev.type, ev.target, hd, h, ev, M))
                   r == Invoke(M1, ev, hd, h)
               IN forEach(r.M, r.ev, hd, k + 1, len)

\* (dispatchEvent that returns true whatever it found)
dispatchEvent_ReturnsTrue(M, hd, ev) ==
  LET M0 == Logged(M, Entry("dispatch", ev.type, ev.target, hd, "", ev, M))
      r == forEach(M0, ev, hd, 1, Len(LiveHandlers(M, hd, ev.type)))
  IN [M |-> Logged(r.M, [Entry("ret", ev.type, ev.target, hd, "", r.ev, r.M)
                          EXCEPT !.ret = TRUE]),
      ev |-> r.ev, ret |-> TRUE]

\* dispatchEvent: return handlers.length > 0, after the forEach that left r
dispatchReturn(r, hd) ==
  LET ret == Len(LiveHandlers(r.M, hd, r.ev.type)) > 0
  IN [M |-> Logged(r.M, [Entry("ret", r.ev.type, r.ev.target, hd, "", r.ev, r.M)
                          EXCEPT !.ret = ret]),
      ev |-> r.ev, ret |-> ret]

\* Interactable.dispatchEvent(event) on handle hd
dispatchEvent(M, hd, ev) ==
  LET M0 == Logged(M, Entry("dispatch", ev.type, ev.target, hd, "", ev, M))
  IN IF ev.type \notin DOMAIN M.eh[hd]
     THEN [M |-> Logged(M0, [Entry("ret", ev.type, ev.target, hd, "", ev, M0)
                              EXCEPT !.ret = FALSE]),
           ev |-> ev, ret |-> FALSE]
     ELSE dispatchReturn(forEach(M0, ev, hd, 1, Len(M.eh[hd][ev.type])), hd)

\* ------------------------------------------------------------ InteractManager
\* (updatePointer that returns the coordinates as the delta)
updatePointer_Absolute(pos, lastPos) == pos

\* updatePointer(event): the delta it returns (lastMousePosition is set by the
\* entry points' actions)
updatePointer(pos, lastPos) == <<pos[1] - lastPos[1], pos[2] - lastPos[2]>>

\* performRaycast(): the raycaster is given the registered objects only and
\* returns those on the ray, nearest first
performRaycast(M, ray) ==
  LET registered(o) == o \in DOMAIN M.its IN SelectSeq(ray, registered)

Visit(M, type, object, isReg) ==
  Logged(M, [Entry("visit", type, object, NoHandle, "", InteractEvent(type, object), M)
              EXCEPT !.reg = isReg])

\* (onClickLoop without its break)
RECURSIVE onClickLoop_NoBreak(_, _, _)
onClickLoop_NoBreak(M, intersections, i) ==
  IF i > Len(intersections) THEN M
  ELSE LET object == intersections[i]
       IN IF object \notin DOMAIN M.its
          THEN onClickLoop_NoBreak(Visit(M, "click", object, FALSE), intersections, i + 1)
          ELSE LET interactEvent == InteractEvent("click", object)
                   r == dispatchEvent(Visit(M, "click", object, TRUE),
                                      M.its[object], interactEvent)
               IN onClickLoop_NoBreak(r.M, intersections, i + 1)

\* onClick: the loop over the intersections, from index i on
RECURSIVE onClickLoop(_, _, _)
onClickLoop(M, intersections, i) ==
  IF i > Len(intersections) THEN M
  ELSE LET object == intersections[i]
       IN IF object \notin DOMAIN M.its
          THEN onClickLoop(Visit(M, "click", object, FALSE), intersections, i + 1)
          ELSE LET interactEvent == InteractEvent("click", object)
                   r == dispatchEvent(Visit(M, "click", object, TRUE),
                                      M.its[object], interactEvent)
               IN IF r.ev.stopped THEN r.M
                  ELSE onClickLoop(r.M, intersections, i + 1)

\* (onPointerDownLoop that records the drag target only)
RECURSIVE onPointerDownLoop_DragOnly(_, _, _)
onPointerDownLoop_DragOnly(M, intersections, i) ==
  IF i > Len(intersections) THEN M
  ELSE LET object == intersections[i]
       IN IF object \notin DOMAIN M.its
          THEN onPointerDownLoop_DragOnly(Visit(M, "pointerdown", object, FALSE),
                                          intersections, i + 1)
          ELSE LET interactEvent == InteractEvent("pointerdown", object)
                   r == dispatchEvent(Visit(M, "pointerdown", object, TRUE),
                                      M.its[object], interactEvent)
                   M2 == [r.M EXCEPT !.drag = object]
               IN IF r.ev.stopped THEN M2
                  ELSE onPointerDownLoop_DragOnly(M2, intersections, i + 1)

\* onPointerDown: the loop over the intersections
RECURSIVE onPointerDownLoop(_, _, _)
onPointerDownLoop(M, intersections, i) ==
  IF i > Len(intersections) THEN M
  ELSE LET object == intersections[i]
       IN IF object \notin DOMAIN M.its
          THEN onPointerDownLoop(Visit(M, "pointerdown", object, FALSE),
                                 intersections, i + 1)
          ELSE LET interactEvent == InteractEvent("pointerdown", object)
                   r == dispatchEvent(Visit(M, "pointerdown", object, TRUE),
                                      M.its[object], interactEvent)
                   M2 == [r.M EXCEPT !.drag = object, !.act = object]
               IN IF r.ev.stopped THEN M2
                  ELSE onPointerDownLoop(M2, intersections, i + 1)

\* (onPointerUpLoop leaving the loop at a hit without wrapper)
RECURSIVE onPointerUpLoop_Blocks(_, _, _)
onPointerUpLoop_Blocks(M, intersections, i) ==
  IF i > Len(intersections) THEN M
  ELSE LET object == intersections[i]
       IN IF object \notin DOMAIN M.its
          THEN Visit(M, "pointerup", object, FALSE)
          ELSE LET interactEvent == InteractEvent("pointerup", object)
                   r == dispatchEvent(Visit(M, "pointerup", object, TRUE),
                                      M.its[object], interactEvent)
               IN IF r.ev.stopped THEN r.M
                  ELSE onPointerUpLoop_Blocks(r.M, intersections, i + 1)

\* onPointerUp: the loop over the intersections
RECURSIVE onPointerUpLoop(_, _, _)
onPointerUpLoop(M, intersections, i) ==
  IF i > Len(intersections) THEN M
  ELSE LET object == intersections[i]
       IN IF object \notin DOMAIN M.its
          THEN onPointerUpLoop(Visit(M, "pointerup", object, FALSE),
                               intersections, i + 1)
          ELSE LET interactEvent == InteractEvent("pointerup", object)
                   r == dispatchEvent(Visit(M, "pointerup", object, TRUE),
                                      M.its[object], interactEvent)
               IN IF r.ev.stopped THEN r.M
                  ELSE onPointerUpLoop(r.M, intersections, i + 1)

\* (dragProcessing without the two delta assignments)
dragProcessing_NoDelta(M, delta) ==
  IF M.drag # None /\ M.drag \in DOMAIN M.its
  THEN dispatchEvent(M, M.its[M.drag], InteractEvent("drag", M.drag)).M
  ELSE M

\* onPointerMove: drag processing
dragProcessing(M, delta) ==
  IF M.drag # None /\ M.drag \in DOMAIN M.its
  THEN LET interactEvent == [InteractEvent("drag", M.drag) EXCEPT !.delta = delta]
       IN dispatchEvent(M, M.its[M.drag], interactEvent).M
  ELSE M

\* onPointerMove: the loop over the intersections
RECURSIVE onPointerMoveLoop(_, _, _, _)
onPointerMoveLoop(M, intersections, i, delta) ==
  IF i > Len(intersections) THEN M
  ELSE LET object == intersections[i]
       IN IF object \notin DOMAIN M.its
          THEN onPointerMoveLoop(Visit(M, "pointermove", object, FALSE),
                                 intersections, i + 1, delta)
          ELSE LET moveEvent ==
                     [InteractEvent("pointermove", object) EXCEPT !.delta = delta]
                   r == dispatchEvent(Visit(M, "pointermove", object, TRUE),
                                      M.its[object], moveEvent)
               IN IF r.ev.stopped THEN r.M
                  ELSE onPointerMoveLoop(r.M, intersections, i + 1, delta)

\* (newlyHovered without the test for objects already hovered)
RECURSIVE newlyHovered_AlwaysEnters(_, _, _)
newlyHovered_AlwaysEnters(M, intersections, i) ==
  IF i > Len(intersections) THEN M
  ELSE LET object == intersections[i]
       IN IF object \notin DOMAIN M.its
          THEN newlyHovered_AlwaysEnters(Visit(M, "pointerenter", object, FALSE),
                                         intersections, i + 1)
          ELSE LET M1 == [M EXCEPT !.hov = Append(Without(@, object), object)]
                   pointerEvent == InteractEvent("pointerenter", object)
                   r == dispatchEvent(Visit(M1, "pointerenter", object, TRUE),
                                      M1.its[object], pointerEvent)
               IN IF r.ret /\ r.ev.stopped THEN r.M
                  ELSE newlyHovered_AlwaysEnters(r.M, intersections, i + 1)

\* processRaycast: objects newly hovered
RECURSIVE newlyHovered(_, _, _)
newlyHovered(M, intersections, i) ==
  IF i > Len(intersections) THEN M
  ELSE LET object == intersections[i]
       IN IF object \notin DOMAIN M.its
          THEN newlyHovered(Visit(M, "pointerenter", object, FALSE),
                            intersections, i + 1)
          ELSE IF object \in Elems(M.hov)
               THEN newlyHovered(M, intersections, i + 1)
               ELSE LET M1 == [M EXCEPT !.hov = Append(@, object)]
                        pointerEvent == InteractEvent("pointerenter", object)
                        r == dispatchEvent(Visit(M1, "pointerenter", object, TRUE),
                                           M1.its[object], pointerEvent)
                    IN IF r.ret /\ r.ev.stopped THEN r.M
                       ELSE newlyHovered(r.M, intersections, i + 1)

\* (noLongerHovered that ends at a stopped pointerleave event)
RECURSIVE noLongerHovered_Breaks(_, _, _, _)
noLongerHovered_Breaks(M, keys, i, intersectedObjects) ==
  IF i > Len(keys) THEN M
  ELSE LET object == keys[i]
       IN IF object \notin Elems(M.hov) \/ object \in intersectedObjects
          THEN noLongerHovered_Breaks(M, keys, i + 1, intersectedObjects)
          ELSE LET M1 == [M EXCEPT !.hov = Without(@, object)]
               IN IF object \in DOMAIN M1.its
                  THEN LET pointerEvent == InteractEvent("pointerleave", object)
                           r == dispatchEvent(Visit(M1, "pointerleave", object, TRUE),
                                              M1.its[object], pointerEvent)
                       IN IF r.ev.stopped THEN r.M
                          ELSE noLongerHovered_Breaks(r.M, keys, i + 1, intersectedObjects)
                  ELSE noLongerHovered_Breaks(Visit(M1, "pointerleave", object, FALSE),
                                              keys, i + 1, intersectedObjects)

\* (noLongerHovered without hoveredObjects.delete)
RECURSIVE noLongerHovered_KeepsKey(_, _, _, _)
noLongerHovered_KeepsKey(M, keys, i, intersectedObjects) ==
  IF i > Len(keys) THEN M
  ELSE LET object == keys[i]
       IN IF object \notin Elems(M.hov) \/ object \in intersectedObjects
          THEN noLongerHovered_KeepsKey(M, keys, i + 1, intersectedObjects)
          ELSE IF object \in DOMAIN M.its
               THEN LET pointerEvent == InteractEvent("pointerleave", object)
                        r == dispatchEvent(Visit(M, "pointerleave", object, TRUE),
                                           M.its[object], pointerEvent)
                    IN noLongerHovered_KeepsKey(r.M, keys, i + 1, intersectedObjects)
               ELSE noLongerHovered_KeepsKey(Visit(M, "pointerleave", object, FALSE),
                                             keys, i + 1, intersectedObjects)

\* processRaycast: objects no longer hovered.  The Map iterator passes over
\* the keys in insertion order and skips a key deleted before it is reached.
RECURSIVE noLongerHovered(_, _, _, _)
noLongerHovered(M, keys, i, intersectedObjects) ==
  IF i > Len(keys) THEN M
  ELSE LET object == keys[i]
       IN IF object \notin Elems(M.hov) \/ object \in intersectedObjects
          THEN noLongerHovered(M, keys, i + 1, intersectedObjects)
          ELSE LET M1 == [M EXCEPT !.hov = Without(@, object)]
               IN IF object \in DOMAIN M1.its
                  THEN LET pointerEvent == InteractEvent("pointerleave", object)
                           r == dispatchEvent(Visit(M1, "pointerleave", object, TRUE),
                                              M1.its[object], pointerEvent)
                       IN noLongerHovered(r.M, keys, i + 1, intersectedObjects)
                  ELSE noLongerHovered(Visit(M1, "pointerleave", object, FALSE),
                                       keys, i + 1, intersectedObjects)

\* processRaycast(event)
processRaycast(M, ray) ==
  LET intersections == performRaycast(M, ray)
      intersectedObjects == Elems(intersections)
      M1 == newlyHovered(M, intersections, 1)
  IN noLongerHovered(M1, M1.hov, 1, intersectedObjects)

\* (onPointerMove that skips the hover processing after a stopped pointermove)
onPointerMove_StopSkipsHover(M, ray, delta) ==
  LET M1 == dragProcessing(M, delta)
      M2 == onPointerMoveLoop(M1, performRaycast(M1, ray), 1, delta)
  IN IF \E i \in 1..Len(M2.log) :
          M2.log[i].t = "ret" /\ M2.log[i].k = "pointermove" /\ M2.log[i].stopped
     THEN M2
     ELSE processRaycast(M2, ray)

\* (onPointerMove that ends the sample when the drag event was stopped)
onPointerMove_DragStops(M, ray, delta) ==
  LET M1 == dragProcessing(M, delta)
      M2 == onPointerMoveLoop(M1, performRaycast(M1, ray), 1, delta)
  IN IF \E i \in 1..Len(M1.log) : M1.log[i].t = "ret" /\ M1.log[i].stopped
     THEN M1
     ELSE processRaycast(M2, ray)

\* (onPointerMove that runs the hover processing before its loop)
onPointerMove_HoverFirst(M, ray, delta) ==
  LET M1 == dragProcessing(M, delta)
      M2 == processRaycast(M1, ray)
  IN onPointerMoveLoop(M2, performRaycast(M2, ray), 1, delta)

\* onPointerMove(event), after updatePointer
onPointerMove(M, ray, delta) ==
  LET M1 == dragProcessing(M, delta)
      M2 == onPointerMoveLoop(M1, performRaycast(M1, ray), 1, delta)
  IN processRaycast(M2, ray)

\* (onClick whose loop uses the wrappers the registry held when it started)
RECURSIVE onClickLoop_EarlyLookup(_, _, _, _)
onClickStep_EarlyLookup(r, intersections, i, its) ==
  IF r.ev.stopped THEN r.M
  ELSE onClickLoop_EarlyLookup(r.M, intersections, i + 1, its)

onClickLoop_EarlyLookup(M, intersections, i, its) ==
  IF i > Len(intersections) THEN M
  ELSE LET object == intersections[i]
           interactEvent == InteractEvent("click", object)
       IN onClickStep_EarlyLookup(
            dispatchEvent(Visit(M, "click", object, TRUE), its[object], interactEvent),
            intersections, i, its)

onClick_EarlyLookup(M, ray) ==
  onClickLoop_EarlyLookup(M, performRaycast(M, ray), 1, M.its)

\* onClick(event), after updatePointer
onClick(M, ray) == onClickLoop(M, performRaycast(M, ray), 1)

\* (onPointerDown whose raycast hits every registered object)
onPointerDown_HitsAll(M, ray) ==
  onPointerDownLoop(M, performRaycast(M, <<1, 2, 3>>), 1)

\* (onPointerDown that drops the targets before its loop)
onPointerDown_ClearsFirst(M, ray) ==
  onPointerDownLoop([M EXCEPT !.drag = None, !.act = None], performRaycast(M, ray), 1)

\* onPointerDown(event), after updatePointer
onPointerDown(M, ray) == onPointerDownLoop(M, performRaycast(M, ray), 1)

\* (onPointerUp that ends the drag after the loop)
onPointerUp_DragLate(M, ray) ==
  LET M2 == onPointerUpLoop(M, performRaycast(M, ray), 1)
  IN [M2 EXCEPT !.drag = None, !.act = None]

\* (onPointerUp that tells the drag target that the drag ended)
onPointerUp_EndsDrag(M, ray) ==
  LET M0 == IF M.drag # None /\ M.drag \in DOMAIN M.its
            THEN dispatchEvent(M, M.its[M.drag], InteractEvent("pointerup", M.drag)).M
            ELSE M
      M1 == [M0 EXCEPT !.drag = None]
      M2 == onPointerUpLoop(M1, performRaycast(M1, ray), 1)
  IN [M2 EXCEPT !.act = None]

\* onPointerUp(event), after updatePointer
onPointerUp(M, ray) ==
  LET M1 == [M EXCEPT !.drag = None]
      M2 == onPointerUpLoop(M1, performRaycast(M1, ray), 1)
  IN [M2 EXCEPT !.act = None]

\* ------------------------------------------------------------ observation
Snapshot ==
  [its |-> interactables, made |-> made, eh |-> eventHandlers,
   hov |-> hoveredObjects, act |-> activeObject, drag |-> dragObject,
   pos |-> lastMousePosition]

NoSnapshot ==
  [its |-> EmptyMap, made |-> EmptyMap, eh |-> EmptyMap, hov |-> <<>>, act |-> None,
   drag |-> None, pos |-> Zero]

Idle ==
  [op |-> "idle", ray |-> <<>>, pos |-> Zero, o |-> None, hd |-> NoHandle,
   type |-> "", h |-> "", ret |-> FALSE, handle |-> NoHandle, stopped |-> FALSE,
   pre |-> NoSnapshot]

Op(name) == [Idle EXCEPT !.op = name, !.pre = Snapshot]

Install(M) ==
  /\ interactables' = M.its
  /\ eventHandlers' = M.eh
  /\ hoveredObjects' = M.hov
  /\ activeObject' = M.act
  /\ dragObject' = M.drag
  /\ log' = M.log

Handles == DOMAIN eventHandlers

\* A run of consecutive pointermove samples whose hit lists are [A], [], []
\* for an object A that was not hovered before the first of them and stays
\* registered: per sample, how many pointerenter and pointerleave events were
\* dispatched to A.
NoRun == [o |-> None, n |-> 0, events |-> <<>>]

HoverCounts(lg, o) ==
  LET enter(e) == e.t = "dispatch" /\ e.k = "pointerenter" /\ e.o = o
      leave(e) == e.t = "dispatch" /\ e.k = "pointerleave" /\ e.o = o
  IN <<Len(SelectSeq(lg, enter)), Len(SelectSeq(lg, leave))>>

NextRun(ray, M) ==
  LET hits == performRaycast(Machine, ray)
  IN IF /\ hoverRun.n \in {1, 2}
        /\ hits = <<>>
        /\ hoverRun.o \in DOMAIN interactables
        /\ hoverRun.o \in DOMAIN M.its
     THEN [hoverRun EXCEPT !.n = @ + 1,
                           !.events = Append(@, HoverCounts(M.log, hoverRun.o))]
     ELSE IF /\ Len(hits) = 1
             /\ hits[1] \notin Elems(hoveredObjects)
             /\ hits[1] \in DOMAIN M.its
          THEN [o |-> hits[1], n |-> 1, events |-> <<HoverCounts(M.log, hits[1])>>]
          ELSE NoRun

\* the number of handlers registered, over all handles and kinds
Registered ==
  Cardinality({t \in Handles \X InteractEventType \X (1..(MaxRegistered + MaxHandlers)) :
                 /\ t[2] \in DOMAIN eventHandlers[t[1]]
                 /\ t[3] <= Len(eventHandlers[t[1]][t[2]])})

\* ------------------------------------------------------------ Init
Init ==
  /\ interactables = EmptyMap
  /\ made = [o \in Obj |-> 0]
  /\ eventHandlers = EmptyMap
  /\ hoveredObjects = <<>>
  /\ activeObject = None
  /\ dragObject = None
  /\ lastMousePosition = Zero
  /\ log = <<>>
  /\ last = Idle
  /\ hoverRun = NoRun

\* ------------------------------------------------------------ actions
\* new Interactable(object): the instance constructed next for object o
Interactable(o) == <<o, made[o] + 1>>

\* new Interactable(object), by the caller, outside any coordinator
NewInteractable(o) ==
  /\ last.op = "idle"
  /\ hoverRun' = NoRun
  /\ made[o] < MaxHandles
  /\ made' = [made EXCEPT ![o] = @ + 1]
  /\ eventHandlers' = MapSet(eventHandlers, Interactable(o), EmptyMap)
  /\ last' = [Op("new") EXCEPT !.o = o, !.handle = Interactable(o)]
  /\ UNCHANGED <<interactables, hoveredObjects, activeObject, dragObject,
                 lastMousePosition, log>>

\* (add that wraps the object anew whether or not it is registered)
Add_Rewraps(o) ==
  /\ last.op = "idle"
  /\ hoverRun' = NoRun
  /\ made[o] < MaxHandles
  /\ made' = [made EXCEPT ![o] = @ + 1]
  /\ eventHandlers' = MapSet(eventHandlers, Interactable(o), EmptyMap)
  /\ interactables' = MapSet(interactables, o, Interactable(o))
  /\ last' = [Op("add") EXCEPT !.o = o, !.handle = Interactable(o)]
  /\ UNCHANGED <<hoveredObjects, activeObject, dragObject, lastMousePosition, log>>

\* manager.add(object)
Add(o) ==
  /\ last.op = "idle"
  /\ hoverRun' = NoRun
  /\ IF o \in DOMAIN interactables
     THEN /\ last' = [Op("add") EXCEPT !.o = o, !.handle = interactables[o]]
          /\ UNCHANGED <<interactables, made, eventHandlers>>
     ELSE /\ made[o] < MaxHandles
          /\ made' = [made EXCEPT ![o] = @ + 1]
          /\ eventHandlers' = MapSet(eventHandlers, Interactable(o), EmptyMap)
          /\ interactables' = MapSet(interactables, o, Interactable(o))
          /\ last' = [Op("add") EXCEPT !.o = o, !.handle = Interactable(o)]
  /\ UNCHANGED <<hoveredObjects, activeObject, dragObject, lastMousePosition, log>>

\* manager.remove(object)
Remove(o) ==
  /\ last.op = "idle"
  /\ hoverRun' = NoRun
  /\ Install(remove(Machine, o))
  /\ last' = [Op("remove") EXCEPT !.o = o]
  /\ UNCHANGED <<made, lastMousePosition>>

\* handle.on(type, handler)
On(hd, type, h) ==
  /\ last.op = "idle"
  /\ hoverRun' = NoRun
  /\ eventHandlers' = [eventHandlers EXCEPT ![hd] = on(@, type, h)]
  /\ last' = [Op("on") EXCEPT !.hd = hd, !.type = type, !.h = h]
  /\ UNCHANGED <<interactables, made, hoveredObjects, activeObject,
                 dragObject, lastMousePosition, log>>

\* handle.off(type, handler?)
Off(hd, type, h) ==
  /\ last.op = "idle"
  /\ hoverRun' = NoRun
  /\ eventHandlers' = [eventHandlers EXCEPT ![hd] = off(@, type, h)]
  /\ last' = [Op("off") EXCEPT !.hd = hd, !.type = type, !.h = h]
  /\ UNCHANGED <<interactables, made, hoveredObjects, activeObject,
                 dragObject, lastMousePosition, log>>

\* handle.removeAll()
RemoveAll(hd) ==
  /\ last.op = "idle"
  /\ hoverRun' = NoRun
  /\ eventHandlers' = [eventHandlers EXCEPT ![hd] = removeAll(@)]
  /\ last' = [Op("removeAll") EXCEPT !.hd = hd]
  /\ UNCHANGED <<interactables, made, hoveredObjects, activeObject,
                 dragObject, lastMousePosition, log>>

\* handle.dispatchEvent(new InteractEvent(type, object, ...)), by the caller
DispatchEvent(hd, type) ==
  /\ last.op = "idle"
  /\ hoverRun' = NoRun
  /\ LET r == dispatchEvent(Machine, hd, InteractEvent(type, getObject(hd)))
     IN /\ Install(r.M)
        /\ last' = [Op("dispatchEvent") EXCEPT !.hd = hd, !.type = type,
                       !.o = getObject(hd),
                       !.ret = r.ret, !.stopped = r.ev.stopped]
  /\ UNCHANGED <<made, lastMousePosition>>

\* the 'click' listener
OnClick(ray, pos) ==
  /\ last.op = "idle"
  /\ hoverRun' = NoRun
  /\ lastMousePosition' = pos
  /\ Install(onClick(Machine, ray))
  /\ last' = [Op("click") EXCEPT !.ray = ray, !.pos = pos]
  /\ UNCHANGED made

\* the 'pointerdown' listener
OnPointerDown(ray, pos) ==
  /\ last.op = "idle"
  /\ hoverRun' = NoRun
  /\ lastMousePosition' = pos
  /\ Install(onPointerDown(Machine, ray))
  /\ last' = [Op("pointerdown") EXCEPT !.ray = ray, !.pos = pos]
  /\ UNCHANGED made

\* the 'pointerup' listener
OnPointerUp(ray, pos) ==
  /\ last.op = "idle"
  /\ hoverRun' = NoRun
  /\ lastMousePosition' = pos
  /\ Install(onPointerUp(Machine, ray))
  /\ last' = [Op("pointerup") EXCEPT !.ray = ray, !.pos = pos]
  /\ UNCHANGED made

\* the 'pointermove' listener
OnPointerMove(ray, pos) ==
  /\ last.op = "idle"
  /\ lastMousePosition' = pos
  /\ LET M == onPointerMove(Machine, ray, updatePointer(pos, lastMousePosition))
     IN Install(M) /\ hoverRun' = NextRun(ray, M)
  /\ last' = [Op("pointermove") EXCEPT !.ray = ray, !.pos = pos]
  /\ UNCHANGED made

\* manager.update(): changes nothing of the program; the observation of the
\* previous operation ends here
Update ==
  /\ last.op # "idle"
  /\ log' = <<>>
  /\ last' = Idle
  /\ UNCHANGED <<interactables, made, eventHandlers, hoveredObjects,
                 activeObject, dragObject, lastMousePosition, hoverRun>>

\* ------------------------------------------------------------ specifications
\* One Interactable used on its own, as tests/Interactable.test.ts does.
HandleKinds == {"click", "drag"}
HandleHandlers == {"nop", "stop", "offSelf", "offNop"}

NextHandle ==
  \/ \E o \in {1} : made[o] = 0 /\ NewInteractable(o)
  \/ \E hd \in Handles, type \in HandleKinds, h \in HandleHandlers :
        Registered < MaxHandlers /\ On(hd, type, h)
  \/ \E hd \in Handles, type \in HandleKinds,
        h \in HandleHandlers \cup {Undefined} : Off(hd, type, h)
  \/ \E hd \in Handles : RemoveAll(hd)
  \/ \E hd \in Handles, type \in HandleKinds : DispatchEvent(hd, type)
  \/ Update

SpecHandle == Init /\ [][NextHandle]_vars

\* The coordinator under click samples.
ClickHandlers == {"nop", "stop", "rm2"}

\* each object is wrapped at most once
AddOnce(o) == (o \in DOMAIN interactables \/ made[o] = 0) /\ Add(o)

NextClick ==
  \/ \E o \in Obj : AddOnce(o)
  \/ \E o \in Obj : Remove(o)
  \/ \E hd \in Handles, h \in ClickHandlers :
        Registered < MaxRegistered /\ On(hd, "click", h)
  \/ \E hd \in Handles, h \in ClickHandlers : Off(hd, "click", h)
  \/ \E ray \in Rays : OnClick(ray, Zero)
  \/ Update

SpecClick == Init /\ [][NextClick]_vars

\* The coordinator under pointerdown, pointermove and pointerup samples over
\* two objects.
DragObj == {1, 2}
DragRays == {<<>>, <<1>>, <<2>>, <<1, 2>>}
DragRegistrations ==
  {<<"pointerdown", "stop">>, <<"pointerdown", "rm1">>, <<"drag", "nop">>,
   <<"drag", "stop">>, <<"pointerup", "nop">>}

NextDrag ==
  \/ \E o \in DragObj : AddOnce(o)
  \/ \E o \in DragObj : Remove(o)
  \/ \E hd \in Handles, r \in DragRegistrations :
        Registered < MaxRegistered /\ On(hd, r[1], r[2])
  \/ \E hd \in Handles, r \in DragRegistrations : Off(hd, r[1], r[2])
  \/ \E ray \in DragRays, pos \in Positions : OnPointerDown(ray, pos)
  \/ \E ray \in DragRays, pos \in Positions : OnPointerMove(ray, pos)
  \/ \E ray \in DragRays, pos \in Positions : OnPointerUp(ray, pos)
  \/ Update

SpecDrag == Init /\ [][NextDrag]_vars

\* The coordinator under pointermove samples over two objects: hover.
HoverRegistrations ==
  {<<"pointerenter", "stop">>, <<"pointerenter", "rm2">>, <<"pointerleave", "nop">>,
   <<"pointerleave", "stop">>, <<"pointermove", "stop">>, <<"pointerenter", "stopOnce">>}

NextHover ==
  \/ \E o \in DragObj : AddOnce(o)
  \/ \E o \in DragObj : Remove(o)
  \/ \E hd \in Handles, r \in HoverRegistrations :
        Registered < MaxRegistered /\ On(hd, r[1], r[2])
  \/ \E hd \in Handles, r \in HoverRegistrations : Off(hd, r[1], r[2])
  \/ \E ray \in DragRays, pos \in Positions : OnPointerMove(ray, pos)
  \/ Update

SpecHover == Init /\ [][NextHover]_vars

\* The coordinator under all four kinds of sample over three objects, with
\* handlers that remove the middle object or stop the propagation.
LoopKinds == {"click", "pointerdown", "pointerup", "pointermove"}
LoopHandlers == {"rm2", "stop"}
\* object 1 gets the handlers that remove object 2, object 2 those that stop
LoopRole(hd, h) == <<getObject(hd), h>> \in {<<1, "rm2">>, <<2, "stop">>}

\* the pointer over object 1 alone, over 2 and 3, and over all three
LoopRays == {<<1>>, <<2, 3>>, <<1, 2, 3>>}

NextLoops ==
  \/ \E o \in Obj : AddOnce(o)
  \/ \E hd \in Handles, type \in LoopKinds, h \in LoopHandlers :
        Registered < MaxRegistered /\ LoopRole(hd, h) /\ On(hd, type, h)
  \/ \E ray \in LoopRays : OnClick(ray, Zero)
  \/ \E ray \in LoopRays : OnPointerDown(ray, Zero)
  \/ \E ray \in LoopRays : OnPointerUp(ray, Zero)
  \/ \E ray \in LoopRays : OnPointerMove(ray, Zero)
  \/ Update

SpecLoops == Init /\ [][NextLoops]_vars

\* The coordinator when an object is removed and added again: object 1 comes
\* and goes, its first wrapper carries the handlers, object 2 stays.
RemovalKinds == InteractEventType \ {"wheel"}
RemovalRays == {<<1>>, <<1, 2>>, <<2>>}
RemovalRole(hd, type, h) ==
  /\ hd = <<1, 1>>
  /\ h = "nop" \/ (h = "rm1" /\ type \in {"drag", "pointerdown"})

NextRemoval ==
  \/ Add(1)
  \/ AddOnce(2)
  \/ Remove(1)
  \/ \E hd \in Handles, type \in RemovalKinds, h \in {"nop", "rm1"} :
        Registered < MaxRegistered /\ RemovalRole(hd, type, h) /\ On(hd, type, h)
  \/ \E ray \in RemovalRays : OnClick(ray, Zero)
  \/ \E ray \in RemovalRays : OnPointerDown(ray, Zero)
  \/ \E ray \in RemovalRays : OnPointerUp(ray, Zero)
  \/ \E ray \in RemovalRays : OnPointerMove(ray, Zero)
  \/ Update

SpecRemoval == Init /\ [][NextRemoval]_vars

\* The coordinator with one object under samples at changing coordinates.
DeltaRays == {<<>>, <<1>>}

NextDelta ==
  \/ AddOnce(1)
  \/ \E hd \in Handles, type \in RemovalKinds :
        Registered < MaxRegistered /\ On(hd, type, "nop")
  \/ \E ray \in DeltaRays, pos \in Positions : OnClick(ray, pos)
  \/ \E ray \in DeltaRays, pos \in Positions : OnPointerDown(ray, pos)
  \/ \E ray \in DeltaRays, pos \in Positions : OnPointerUp(ray, pos)
  \/ \E ray \in DeltaRays, pos \in Positions : OnPointerMove(ray, pos)
  \/ Update

SpecDelta == Init /\ [][NextDelta]_vars

\* The coordinator under pointermove samples over three objects whose
\* pointerenter handlers stop the propagation.
EnterRays == {<<>>, <<3>>, <<1, 2>>, <<2, 3>>, <<1, 2, 3>>}
EnterHandlers == {"nop", "stop", "stopOnce"}

NextEnter ==
  \/ \E o \in Obj : AddOnce(o)
  \/ \E hd \in Handles, h \in EnterHandlers :
        Registered < MaxRegistered /\ On(hd, "pointerenter", h)
  \/ \E ray \in EnterRays : OnPointerMove(ray, Zero)
  \/ Update

SpecEnter == Init /\ [][NextEnter]_vars

\* ------------------------------------------------------------ reading the log
Count(s, x) == Cardinality({i \in 1..Len(s) : s[i] = x})

IsCall(e) == e.t = "call"
IsDispatch(e) == e.t = "dispatch"
IsVisit(e) == e.t = "visit"

\* the handlers invoked, in order of invocation
InvokedIn(lg) == LET calls == SelectSeq(lg, IsCall) IN [i \in 1..Len(calls) |-> calls[i].h]
Invoked == InvokedIn(log)

\* the handler sequence of the dispatched kind when the observed dispatchEvent started
PreHandlers == MapGet(last.pre.eh[last.hd], last.type)

\* handlers that call off() on their own handle when invoked
Unregisters(h) == h \in {"offSelf", "offNop", "stopOnce"}

\* what handle.dispatchEvent of a fresh event of kind type would invoke now
WouldInvoke(hd, type) ==
  InvokedIn(dispatchEvent(Machine, hd, InteractEvent(type, getObject(hd))).M.log)

\* the handlers of kind type invoked for object o, in order of invocation
CallsOn(lg, o, type) ==
  LET mine(e) == e.t = "call" /\ e.o = o /\ e.k = type
      calls == SelectSeq(lg, mine)
  IN [i \in 1..Len(calls) |-> calls[i].h]

\* the dispatchEvent calls of kind type, in order
Dispatches(lg, type) ==
  LET mine(e) == e.t = "dispatch" /\ e.k = type IN SelectSeq(lg, mine)

\* the handler sequence object o had for kind type before the operation
PreHandlersOf(o, type) ==
  IF o \in DOMAIN last.pre.its THEN MapGet(last.pre.eh[last.pre.its[o]], type)
  ELSE <<>>

\* ------------------------------------------------------------ C1
\* C1: a click sample dispatches object by object in the order of the hit
\* list; once a click handler calls stopPropagation no handler of a farther
\* object is invoked, and the stopping object's own handlers all were.
C1_StopPropagation ==
  last.op = "click"
  => LET ds == Dispatches(log, "click")
         cs == SelectSeq(log, IsCall)
     IN /\ \A i, j \in 1..Len(ds) :
             i < j => IndexOf(last.ray, ds[i].o) < IndexOf(last.ray, ds[j].o)
        /\ \A i \in 1..Len(cs) :
             cs[i].h = "stop"
             => /\ \A j \in 1..Len(cs) :
                     IndexOf(last.ray, cs[j].o) <= IndexOf(last.ray, cs[i].o)
                /\ CallsOn(log, cs[i].o, "click") = PreHandlersOf(cs[i].o, "click")

C1_Witness ==
  /\ last.op = "click"
  /\ \E near, far \in DOMAIN last.pre.its :
       /\ IndexOf(last.ray, near) > 0
       /\ IndexOf(last.ray, near) < IndexOf(last.ray, far)
       /\ PreHandlersOf(far, "click") # <<>>
       /\ CallsOn(log, far, "click") = <<>>
       /\ CallsOn(log, near, "click") = <<"stop">>

\* ------------------------------------------------------------ C2
\* the state before the observed operation
PreMachine ==
  [its |-> last.pre.its, eh |-> last.pre.eh, hov |-> last.pre.hov,
   act |-> last.pre.act, drag |-> last.pre.drag, log |-> <<>>]

SampleDelta == updatePointer(last.pos, last.pre.pos)

\* the entry point of a sample of kind op
RunSample(M, op, ray, delta) ==
  CASE op = "click" -> onClick(M, ray)
    [] op = "pointerdown" -> onPointerDown(M, ray)
    [] op = "pointerup" -> onPointerUp(M, ray)
    [] op = "pointermove" -> onPointerMove(M, ray, delta)

\* the hit list the dispatch loop of the observed sample went over
HitList ==
  IF last.op = "pointermove"
  THEN performRaycast(dragProcessing(PreMachine, SampleDelta), last.ray)
  ELSE performRaycast(PreMachine, last.ray)

\* the hits the loop of kind type reached, in order
Visits(lg, type) ==
  LET mine(e) == e.t = "visit" /\ e.k = type IN SelectSeq(lg, mine)

Returns(lg, type, o) ==
  LET mine(e) == e.t = "ret" /\ e.k = type /\ e.o = o IN SelectSeq(lg, mine)

NotVisit(e) == e.t # "visit"

\* C2: in a click, pointerdown, pointerup or pointermove sample a hit without
\* wrapper receives nothing, does not end the loop and is not captured, and
\* the sample does to everything else exactly what it does when these hits
\* are not on the ray at all.
C2_UnregisteredTransparent ==
  last.op \in LoopKinds
  => LET vs == Visits(log, last.op)
         skipped == {vs[i].o : i \in {j \in 1..Len(vs) : ~vs[j].reg}}
         seen(o) == o \notin skipped
         alt == RunSample(PreMachine, last.op, SelectSeq(last.ray, seen), SampleDelta)
     IN /\ \A i \in 1..Len(log) :
             (log[i].t = "visit" /\ log[i].k = last.op /\ ~log[i].reg)
             => \A j \in (i + 1)..Len(log) :
                  log[j].o = log[i].o => log[j].t = "visit"
        /\ \A o \in skipped :
             /\ \A i \in 1..Len(log) :
                  (log[i].o = o /\ log[i].k = last.op) => log[i].t = "visit"
             /\ dragObject # o /\ activeObject # o
        /\ Len(vs) <= Len(HitList)
        /\ \A i \in 1..Len(vs) : vs[i].o = HitList[i]
        /\ Len(vs) < Len(HitList)
           => /\ vs[Len(vs)].reg
              /\ LET rs == Returns(log, last.op, vs[Len(vs)].o)
                 IN Len(rs) = 1 /\ rs[1].stopped
        /\ SelectSeq(alt.log, NotVisit) = SelectSeq(log, NotVisit)
        /\ alt.its = interactables /\ alt.eh = eventHandlers
        /\ alt.hov = hoveredObjects
        /\ alt.act = activeObject /\ alt.drag = dragObject

C2_Witness ==
  /\ last.op = "pointerup"
  /\ LET vs == Visits(log, "pointerup")
     IN /\ Len(vs) = 3
        /\ ~vs[2].reg
        /\ PreHandlersOf(vs[2].o, "pointerup") = <<"stop">>
        /\ Len(Dispatches(log, "pointerup")) = 2

\* ------------------------------------------------------------ C3
\* C3: over three consecutive pointermove samples with hit lists [A], [],
\* [], a registered object A not hovered before gets one pointerenter and no
\* pointerleave in the first, one pointerleave and no pointerenter in the
\* second, and neither in the third.
C3_HoverDiffing ==
  /\ hoverRun.n >= 1 => hoverRun.events[1] = <<1, 0>>
  /\ hoverRun.n >= 2 => hoverRun.events[2] = <<0, 1>>
  /\ hoverRun.n >= 3 => hoverRun.events[3] = <<0, 0>>

C3_Witness ==
  /\ hoverRun.n = 3
  /\ last.op = "pointermove"
  /\ PreHandlersOf(hoverRun.o, "pointerleave") # <<>>
  /\ PreHandlersOf(hoverRun.o, "pointerenter") # <<>>

\* ------------------------------------------------------------ C4
\* C4: a pointermove sample dispatches a drag event exactly when dragObject
\* is a registered object as the sample starts: one event, to that object,
\* with the sample's delta, which its drag handlers see.  No other operation
\* dispatches a drag event, pointerup leaves dragObject null, and nothing but
\* pointerdown sets it.
C4_DragLifecycle ==
  LET dd == Dispatches(log, "drag")
      t == last.pre.drag
  IN /\ last.op = "pointermove"
        => IF t # None /\ t \in DOMAIN last.pre.its
           THEN /\ Len(dd) = 1
                /\ dd[1].o = t
                /\ dd[1].hd = last.pre.its[t]
                /\ dd[1].delta = SampleDelta
                /\ \A i \in 1..Len(log) :
                     (log[i].t = "call" /\ log[i].k = "drag")
                     => (log[i].o = t /\ log[i].delta = SampleDelta)
                /\ Len(CallsOn(log, t, "drag")) >= 1 <=> PreHandlersOf(t, "drag") # <<>>
           ELSE dd = <<>> /\ \A i \in 1..Len(log) : log[i].k # "drag"
     /\ last.op # "pointermove" => \A i \in 1..Len(log) : log[i].k # "drag"
     /\ last.op = "pointerup" => dragObject = None
     /\ last.op \notin {"idle", "pointerdown"} => dragObject \in {None, last.pre.drag}

C4_Witness ==
  /\ last.op = "pointermove"
  /\ last.pre.drag # None
  /\ \E i \in 1..Len(log) :
       /\ log[i].t = "call"
       /\ log[i].k = "drag"
       /\ log[i].o = last.pre.drag
       /\ log[i].delta = <<5, 10>>

\* ------------------------------------------------------------ C5
\* C5: after a pointerdown sample whose hit list has a registered object,
\* dragObject and activeObject are the nearest registered object of the hit
\* list.
C5_NearestCaptured ==
  (last.op = "pointerdown" /\ HitList # <<>>)
  => (dragObject = HitList[1] /\ activeObject = HitList[1])

\* ------------------------------------------------------------ C6
\* C6: between entry-point calls dragObject and activeObject are null or an
\* object of the registry.
C6_TargetsRegistered ==
  /\ dragObject = None \/ dragObject \in DOMAIN interactables
  /\ activeObject = None \/ activeObject \in DOMAIN interactables

\* ------------------------------------------------------------ C7
\* C7: when a handler calls off(k, .) on its own handle during a dispatch of
\* k, every handler registered for k when the dispatch started is invoked
\* exactly once per registration in that dispatch.
C7_StableSnapshot ==
  (/\ last.op = "dispatchEvent"
   /\ \E i \in 1..Len(Invoked) : Unregisters(Invoked[i]))
  => \A h \in InteractEventHandler : Count(Invoked, h) = Count(PreHandlers, h)

\* ------------------------------------------------------------ C8
\* C8: a handler registered once on kind k is invoked exactly once by
\* dispatchEvent of an event of kind k, and dispatchEvent returns true.
C8_OnThenDispatch ==
  last.op = "dispatchEvent"
  => \A h \in Elems(PreHandlers) :
       Count(PreHandlers, h) = 1 => (Count(Invoked, h) = 1 /\ last.ret)

\* ------------------------------------------------------------ C9
\* C9: dispatchEvent of a kind without handlers returns false, invokes
\* nothing, leaves the event unstopped and the handler maps as they were.
C9_NoHandlerDispatch ==
  (last.op = "dispatchEvent" /\ last.type \notin DOMAIN last.pre.eh[last.hd])
  => /\ ~last.ret
     /\ Invoked = <<>>
     /\ ~last.stopped
     /\ eventHandlers = last.pre.eh

C9_Witness ==
  /\ last.op = "dispatchEvent"
  /\ last.type \notin DOMAIN last.pre.eh[last.hd]
  /\ DOMAIN last.pre.eh[last.hd] # {}

\* ------------------------------------------------------------ C10
\* C10 as stated: after off(k, h), whatever was registered, a dispatch of k
\* does not invoke h and invokes every other handler registered on k.
C10_OffThenDispatch ==
  (last.op = "off" /\ last.h # Undefined)
  => LET inv == WouldInvoke(last.hd, last.type)
     IN /\ Count(inv, last.h) = 0
        /\ \A g \in Elems(MapGet(last.pre.eh[last.hd], last.type)) \ {last.h} :
              Count(inv, g) > 0

\* the index of the first handler of s that unregisters, Len(s) when none does
FirstUnregistering(s) ==
  IF \E i \in 1..Len(s) : Unregisters(s[i])
  THEN CHOOSE i \in 1..Len(s) :
         Unregisters(s[i]) /\ \A j \in 1..(i - 1) : ~Unregisters(s[j])
  ELSE Len(s)

\* C10 amended: after off(k, h) of a handler registered at most once on k, h
\* is not in k's sequence and a dispatch of k does not invoke h; the other
\* handlers stay registered in their order, and the dispatch invokes them in
\* that order up to and including the first that unregisters a handler; and
\* no dispatch invokes a handler that was not in the sequence when it started.
C10_OffOnceRegistered ==
  /\ (/\ last.op = "off"
      /\ last.h # Undefined
      /\ Count(MapGet(last.pre.eh[last.hd], last.type), last.h) <= 1)
     => LET before == MapGet(last.pre.eh[last.hd], last.type)
            now == MapGet(eventHandlers[last.hd], last.type)
            inv == WouldInvoke(last.hd, last.type)
            p == FirstUnregistering(now)
        IN /\ now = Without(before, last.h)
           /\ Count(inv, last.h) = 0
           /\ Len(inv) >= p
           /\ SubSeq(inv, 1, p) = SubSeq(now, 1, p)
  /\ last.op = "dispatchEvent" => Elems(Invoked) \subseteq Elems(PreHandlers)

C10_Witness ==
  /\ last.op = "off"
  /\ Count(MapGet(last.pre.eh[last.hd], last.type), last.h) = 1
  /\ Len(MapGet(eventHandlers[last.hd], last.type)) = 2
  /\ Len(WouldInvoke(last.hd, last.type)) = 2

\* ------------------------------------------------------------ C11
\* what handle.dispatchEvent of a fresh event of kind type would return now
WouldReturn(hd, type) ==
  dispatchEvent(Machine, hd, InteractEvent(type, getObject(hd))).ret

\* C11: removeAll leaves the handle without any kind; a handle without any
\* kind answers false to dispatchEvent of every kind and invokes nothing; and
\* nothing but on() gives a handle a kind it did not have.
C11_RemoveAllSilences ==
  /\ last.op = "removeAll" => DOMAIN eventHandlers[last.hd] = {}
  /\ \A hd \in Handles :
       DOMAIN eventHandlers[hd] = {}
       => \A type \in InteractEventType :
            ~WouldReturn(hd, type) /\ WouldInvoke(hd, type) = <<>>
  /\ last.op \notin {"idle", "on"}
     => \A hd \in DOMAIN last.pre.eh :
          DOMAIN eventHandlers[hd] \subseteq DOMAIN last.pre.eh[hd]

C11_Witness ==
  /\ last.op = "removeAll"
  /\ DOMAIN last.pre.eh[last.hd] = HandleKinds
  /\ \A type \in HandleKinds : ~WouldReturn(last.hd, type)

\* ------------------------------------------------------------ C12
\* C12: add of a registered object returns the handle the registry holds and
\* changes neither the registry nor any handler; remove takes the object out
\* of the registry; add of an unregistered object returns a handle that did
\* not exist before, registers it and finds it without handlers.
C12_AddIdempotentRemoveFresh ==
  /\ last.op = "add"
     => IF last.o \in DOMAIN last.pre.its
        THEN /\ last.handle = last.pre.its[last.o]
             /\ interactables = last.pre.its
             /\ eventHandlers = last.pre.eh
        ELSE /\ last.handle \notin DOMAIN last.pre.eh
             /\ interactables = MapSet(last.pre.its, last.o, last.handle)
             /\ eventHandlers[last.handle] = EmptyMap
             /\ \A hd \in DOMAIN last.pre.eh : eventHandlers[hd] = last.pre.eh[hd]
  /\ last.op = "remove" => last.o \notin DOMAIN interactables

C12_Witness ==
  /\ last.op = "add"
  /\ last.o \notin DOMAIN last.pre.its
  /\ last.handle = <<last.o, 2>>
  /\ DOMAIN eventHandlers[<<last.o, 1>>] # {}
  /\ DOMAIN eventHandlers[last.handle] = {}

\* ------------------------------------------------------------ C13
\* handlers that call manager.remove
Removes(h) == h \in {"rm1", "rm2", "rm3"}

\* C13: remove of the drag target, by the caller or by a handler, leaves
\* dragObject null; the sample it was called in dispatches no drag event
\* after it; while
\* dragObject is null a pointermove or pointerup sample dispatches no drag
\* event, and nothing but a pointerdown sample makes dragObject non-null.
C13_RemoveMidDrag ==
  /\ (last.op = "remove" /\ last.pre.drag = last.o) => dragObject = None
  /\ \A i \in 1..Len(log) :
       (/\ log[i].t = "call"
        /\ Removes(log[i].h)
        /\ log[i].drag = RemovedBy(log[i].h))
       => /\ log[i + 1].drag = None
          /\ \A j \in (i + 1)..Len(log) : log[j].t = "dispatch" => log[j].k # "drag"
          /\ last.op # "pointerdown" => dragObject = None
  /\ (last.op \in {"pointermove", "pointerup"} /\ last.pre.drag = None)
     => /\ \A i \in 1..Len(log) : log[i].k # "drag"
        /\ dragObject = None
  /\ (last.op \notin {"idle", "pointerdown"} /\ last.pre.drag = None)
     => dragObject = None

C13_Witness ==
  /\ last.op = "remove"
  /\ last.pre.drag = last.o
  /\ PreHandlersOf(last.o, "drag") # <<>>
  /\ dragObject = None

\* ------------------------------------------------------------ C14
\* whether hd is the handle the registry holds for its object
IsRegistered(hd) ==
  getObject(hd) \in DOMAIN interactables /\ interactables[getObject(hd)] = hd

\* C14: on() on a handle whose object is not in the registry stores no
\* handler.
C14_UnregisteredOnRejected ==
  (last.op = "on" /\ ~IsRegistered(last.hd)) => eventHandlers = last.pre.eh

\* ------------------------------------------------------------ C15
\* C15: a pointerup sample ends with dragObject and activeObject null;
\* dragObject is null at every step of its loop; and at every handler
\* invocation activeObject is what it was when the sample started, unless a
\* handler invoked earlier in the sample removed that object.
C15_PointerUpClears ==
  last.op = "pointerup"
  => /\ dragObject = None
     /\ activeObject = None
     /\ \A i \in 1..Len(log) : log[i].drag = None
     /\ \A i \in 1..Len(log) :
          log[i].t = "call"
          => \/ log[i].act = last.pre.act
             \/ /\ log[i].act = None
                /\ \E j \in 1..(i - 1) :
                     /\ log[j].t = "call"
                     /\ Removes(log[j].h)
                     /\ RemovedBy(log[j].h) = last.pre.act

C15_Witness ==
  /\ last.op = "pointerup"
  /\ last.pre.drag # None
  /\ last.pre.act # None
  /\ \E i \in 1..Len(log) :
       /\ log[i].t = "call"
       /\ log[i].h = "stop"
       /\ log[i].act = last.pre.act
       /\ log[i].drag = None

\* ------------------------------------------------------------ C16
\* C16: remove takes the object out of the registry and nothing but add puts
\* one in; every handler a sample invokes is invoked on the handle that the
\* registry held for the event's target when the sample started.
C16_RemovedSilent ==
  /\ last.op = "remove" => last.o \notin DOMAIN interactables
  /\ last.op \notin {"idle", "add"}
     => DOMAIN interactables \subseteq DOMAIN last.pre.its
  /\ last.op \in LoopKinds
     => \A i \in 1..Len(log) :
          log[i].t = "call"
          => /\ log[i].o \in DOMAIN last.pre.its
             /\ log[i].hd = last.pre.its[log[i].o]

C16_Witness ==
  /\ last.op \in LoopKinds
  /\ \E o \in Elems(last.ray) :
       /\ o \notin DOMAIN last.pre.its
       /\ made[o] >= 1
       /\ MapGet(eventHandlers[<<o, 1>>], last.op) # <<>>
  /\ SelectSeq(log, IsCall) = <<>>

\* ------------------------------------------------------------ C17
\* C17: a click, pointerdown, pointerup or pointermove sample whose hit list
\* is empty invokes no click, pointerdown, pointerup, pointermove or
\* pointerenter handler.
C17_EmptyHitList ==
  (last.op \in LoopKinds /\ HitList = <<>>)
  => \A i \in 1..Len(log) :
       log[i].t = "call"
       => log[i].k \notin {"click", "pointerdown", "pointerup", "pointermove",
                           "pointerenter"}

C17_Witness ==
  /\ last.op = "pointermove"
  /\ HitList = <<>>
  /\ \E o \in DOMAIN last.pre.its :
       /\ PreHandlersOf(o, "pointermove") # <<>>
       /\ CallsOn(log, o, "pointerleave") # <<>>

\* ------------------------------------------------------------ C18
\* C18: in a dispatchEvent call in which a handler called stopPropagation,
\* every handler registered for the kind when the call started is invoked,
\* once per registration.
C18_StopKeepsDispatching ==
  (last.op = "dispatchEvent" /\ Count(Invoked, "stop") > 0)
  => \A h \in InteractEventHandler : Count(Invoked, h) = Count(PreHandlers, h)

\* ------------------------------------------------------------ C19
\* C19: dispatchEvent invokes exactly the sequence registered for the kind:
\* registration order, one invocation per registration.
C19_RegistrationOrder ==
  last.op = "dispatchEvent" => Invoked = PreHandlers

\* ------------------------------------------------------------ C20
\* s without its first entry equal to x
RemoveFirst(s, x) ==
  IF \E i \in 1..Len(s) : s[i] = x
  THEN LET i == CHOOSE i \in 1..Len(s) : s[i] = x /\ \A j \in 1..(i - 1) : s[j] # x
       IN SubSeq(s, 1, i - 1) \o SubSeq(s, i + 1, Len(s))
  ELSE s

\* C20: off(k, h) leaves k's sequence without its first entry equal to h and
\* the other kinds as they were; a sequence that became empty leaves no
\* entry for k, and a dispatch of k then returns false and invokes nothing;
\* off of an h that is not in the sequence changes nothing; and no kind ever
\* maps to an empty sequence.
C20_OffFirstOnly ==
  /\ (last.op = "off" /\ last.h # Undefined)
     => LET before == MapGet(last.pre.eh[last.hd], last.type)
            now == MapGet(eventHandlers[last.hd], last.type)
        IN /\ now = RemoveFirst(before, last.h)
           /\ now = <<>>
              => /\ last.type \notin DOMAIN eventHandlers[last.hd]
                 /\ ~WouldReturn(last.hd, last.type)
                 /\ WouldInvoke(last.hd, last.type) = <<>>
           /\ Count(before, last.h) = 0 => eventHandlers = last.pre.eh
           /\ \A k \in InteractEventType \ {last.type} :
                /\ k \in DOMAIN eventHandlers[last.hd] <=> k \in DOMAIN last.pre.eh[last.hd]
                /\ MapGet(eventHandlers[last.hd], k) = MapGet(last.pre.eh[last.hd], k)
  /\ \A hd \in Handles : \A k \in DOMAIN eventHandlers[hd] : eventHandlers[hd][k] # <<>>

C20_Witness ==
  /\ last.op = "off"
  /\ LET before == MapGet(last.pre.eh[last.hd], last.type)
     IN /\ Len(before) = 3
        /\ before[1] = last.h /\ before[2] # last.h /\ before[3] = last.h
        /\ MapGet(eventHandlers[last.hd], last.type) = <<before[2], before[3]>>

\* ------------------------------------------------------------ C21
\* the place of an event kind among the phases of a pointermove sample
Phase(k) ==
  CASE k = "drag" -> 1 [] k = "pointermove" -> 2
    [] k = "pointerenter" -> 3 [] k = "pointerleave" -> 4 [] OTHER -> 0

\* C21: in a pointermove sample every step belongs to one of the four
\* phases, no step of an earlier phase comes after a step of a later one, and
\* every handler invocation lies between the dispatch of its event and the
\* return of that dispatch, with no other dispatch in between.
C21_PhaseOrder ==
  last.op = "pointermove"
  => /\ \A i \in 1..Len(log) : Phase(log[i].k) > 0
     /\ \A i, j \in 1..Len(log) : i < j => Phase(log[i].k) <= Phase(log[j].k)
     /\ \A i \in 1..Len(log) :
          log[i].t = "dispatch"
          => \E j \in (i + 1)..Len(log) :
               /\ log[j].t = "ret"
               /\ \A m \in i..j : log[m].k = log[i].k /\ log[m].o = log[i].o
               /\ \A m \in (i + 1)..(j - 1) : log[m].t = "call"
     /\ \A i \in 1..Len(log) :
          log[i].t = "call" => log[i - 1].t \in {"dispatch", "call"}

C21_Witness ==
  /\ last.op = "pointermove"
  /\ \A k \in {"drag", "pointermove", "pointerenter", "pointerleave"} :
       Dispatches(log, k) # <<>>
  /\ \E i, j \in 1..Len(log) :
       /\ log[i].t = "call" /\ log[i].k = "drag"
       /\ log[j].t = "call" /\ log[j].k = "pointerleave"

\* ------------------------------------------------------------ C22
NonDrag(e) == e.k # "drag"

\* the steps of lg, without what they saw of dragObject
Undrag(lg) == [i \in 1..Len(lg) |-> [lg[i] EXCEPT !.drag = None]]

\* C22: a pointermove sample that starts with a registered dragObject
\* dispatches one drag event to it, in or out of the hit list; and when its
\* drag handlers do nothing but stop the event, everything else the sample
\* does is what the same sample does without a dragObject.
C22_DragOutsidePropagation ==
  (/\ last.op = "pointermove"
   /\ last.pre.drag # None
   /\ last.pre.drag \in DOMAIN last.pre.its
   /\ \A i \in 1..Len(log) :
        (log[i].t = "call" /\ log[i].k = "drag") => log[i].h \in {"nop", "stop"})
  => LET alt == onPointerMove([PreMachine EXCEPT !.drag = None], last.ray, SampleDelta)
         dd == Dispatches(log, "drag")
     IN /\ Len(dd) = 1
        /\ dd[1].o = last.pre.drag
        /\ log[1] = dd[1]
        /\ Undrag(SelectSeq(log, NonDrag)) = alt.log
        /\ alt.its = interactables /\ alt.eh = eventHandlers
        /\ alt.hov = hoveredObjects /\ alt.act = activeObject
        /\ dragObject = last.pre.drag

C22_Witness ==
  /\ last.op = "pointermove"
  /\ last.pre.drag # None
  /\ last.pre.drag \notin Elems(last.ray)
  /\ Count(CallsOn(log, last.pre.drag, "drag"), "stop") = 1
  /\ Dispatches(log, "pointermove") # <<>>
  /\ Dispatches(log, "pointerenter") # <<>>

\* ------------------------------------------------------------ C23
\* handlers that call event.stopPropagation()
Stops(h) == h \in {"stop", "stopOnce"}

\* C23: in a pointermove sample the pointerenter events go out nearest
\* first, and once a pointerenter handler called stopPropagation no object
\* farther on the ray gets a pointerenter event or enters hoveredObjects.
C23_EnterStops ==
  last.op = "pointermove"
  => LET ds == Dispatches(log, "pointerenter")
     IN /\ \A i, j \in 1..Len(ds) :
             i < j => IndexOf(last.ray, ds[i].o) < IndexOf(last.ray, ds[j].o)
        /\ \A i \in 1..Len(log) :
             (log[i].t = "call" /\ log[i].k = "pointerenter" /\ Stops(log[i].h))
             => \A far \in Elems(last.ray) :
                  IndexOf(last.ray, far) > IndexOf(last.ray, log[i].o)
                  => /\ \A j \in 1..Len(ds) : ds[j].o # far
                     /\ far \in Elems(hoveredObjects) => far \in Elems(last.pre.hov)

\* ------------------------------------------------------------ C24
\* the dispatchEvent calls of kind type for object o
DispatchesTo(lg, type, o) ==
  LET mine(e) == e.t = "dispatch" /\ e.k = type /\ e.o = o IN SelectSeq(lg, mine)

\* C24: in a pointermove sample every object that was hovered, is not in
\* the hit list and is not removed during the sample gets exactly one
\* pointerleave event and leaves hoveredObjects, whatever was stopped; after
\* the sample hoveredObjects holds objects of the ray only, and no object
\* got more than one pointerleave event.
C24_LeaveUnconditional ==
  last.op = "pointermove"
  => /\ \A o \in Elems(last.pre.hov) :
          (o \notin Elems(HitList) /\ o \in DOMAIN interactables)
          => /\ Len(DispatchesTo(log, "pointerleave", o)) = 1
             /\ o \notin Elems(hoveredObjects)
     /\ \A o \in Elems(hoveredObjects) : o \in Elems(last.ray)
     /\ \A o \in Obj : Len(DispatchesTo(log, "pointerleave", o)) <= 1

C24_Witness ==
  /\ last.op = "pointermove"
  /\ LET ds == Dispatches(log, "pointerleave")
     IN /\ Len(ds) = 2
        /\ Count(CallsOn(log, ds[1].o, "pointerleave"), "stop") = 1
        /\ CallsOn(log, ds[2].o, "pointerleave") # <<>>
  /\ hoveredObjects = <<>>

\* ------------------------------------------------------------ C25
\* C25: in a pointermove sample an object that was hovered and is in the hit
\* list gets no pointerenter and no pointerleave event; a pointerenter event
\* goes only to an object of the hit list that was not hovered; and no other
\* operation dispatches a pointerenter or pointerleave event.
C25_SteadyHover ==
  /\ last.op = "pointermove"
     => /\ \A o \in Elems(last.pre.hov) \cap Elems(HitList) :
             /\ DispatchesTo(log, "pointerenter", o) = <<>>
             /\ DispatchesTo(log, "pointerleave", o) = <<>>
        /\ \A i \in 1..Len(log) :
             (log[i].t = "dispatch" /\ log[i].k = "pointerenter")
             => /\ log[i].o \in Elems(HitList)
                /\ log[i].o \notin Elems(last.pre.hov)
  /\ last.op # "pointermove"
     => \A i \in 1..Len(log) : log[i].k \notin {"pointerenter", "pointerleave"}

C25_Witness ==
  /\ last.op = "pointermove"
  /\ \E o \in Elems(last.pre.hov) \cap Elems(HitList) :
       /\ PreHandlersOf(o, "pointerenter") # <<>>
       /\ o \in Elems(hoveredObjects)
       /\ \E n \in Elems(HitList) \ {o} :
            CallsOn(log, n, "pointerenter") # <<>>

\* ------------------------------------------------------------ C26
\* the sample's coordinates minus the coordinates of the sample before it
MovedBy == <<last.pos[1] - last.pre.pos[1], last.pos[2] - last.pre.pos[2]>>

\* C26: an event of kind click, pointerdown, pointerup, pointerenter or
\* pointerleave has delta (0, 0) when it is dispatched and when each of its
\* handlers is invoked; an event of kind pointermove or drag has the sample's
\* delta.
C26_DeltaByKind ==
  \A i \in 1..Len(log) :
    log[i].t \in {"dispatch", "call"}
    => IF log[i].k \in {"pointermove", "drag"}
       THEN log[i].delta = MovedBy
       ELSE log[i].delta = Zero

C26_Witness ==
  /\ last.op = "pointermove"
  /\ MovedBy # Zero
  /\ \E i, j \in 1..Len(log) :
       /\ log[i].t = "call" /\ log[i].k = "pointermove" /\ log[i].delta = MovedBy
       /\ log[j].t = "call" /\ log[j].k = "pointerenter" /\ log[j].delta = Zero

\* ------------------------------------------------------------ C27
\* C27: every event is unstopped when it is dispatched, in every sample; and
\* in a pointermove sample, whatever its pointermove handlers stopped, the
\* nearest object of the hit list gets its pointerenter event if it was not
\* hovered, and every hovered object outside the hit list its pointerleave
\* event (objects removed during the sample aside).
C27_FreshEvents ==
  /\ \A i \in 1..Len(log) : log[i].t = "dispatch" => ~log[i].stopped
  /\ last.op = "pointermove"
     => /\ (/\ HitList # <<>>
            /\ HitList[1] \notin Elems(last.pre.hov)
            /\ HitList[1] \in DOMAIN interactables)
           => Len(DispatchesTo(log, "pointerenter", HitList[1])) = 1
        /\ \A o \in Elems(last.pre.hov) :
             (o \notin Elems(HitList) /\ o \in DOMAIN interactables)
             => Len(DispatchesTo(log, "pointerleave", o)) = 1

C27_Witness ==
  /\ last.op = "pointermove"
  /\ Len(HitList) = 1
  /\ Count(CallsOn(log, HitList[1], "pointermove"), "stop") = 1
  /\ Len(DispatchesTo(log, "pointerenter", HitList[1])) = 1
  /\ Dispatches(log, "pointerleave") # <<>>

\* ------------------------------------------------------------ C28
\* C28: every sample leaves its coordinates in lastMousePosition and no
\* other operation changes it; the pointermove and drag events of a
\* pointermove sample carry the sample's coordinates minus lastMousePosition
\* as the sample found it.
C28_DeltaFromLastSample ==
  /\ last.op \in LoopKinds => lastMousePosition = last.pos
  /\ last.op \notin LoopKinds \cup {"idle"} => lastMousePosition = last.pre.pos
  /\ last.op = "pointermove"
     => \A i \in 1..Len(log) :
          log[i].k \in {"pointermove", "drag"} /\ log[i].t # "visit"
          => log[i].delta = MovedBy

C28_Witness ==
  /\ last.op = "pointermove"
  /\ last.pre.pos = <<5, 10>>
  /\ last.pos = Zero
  /\ \E i, j \in 1..Len(log) :
       /\ log[i].t = "call" /\ log[i].k = "drag" /\ log[i].delta = <<-5, -10>>
       /\ log[j].t = "call" /\ log[j].k = "pointermove" /\ log[j].delta = <<-5, -10>>

\* ------------------------------------------------------------ C29
\* C29: remove(object) by the caller dispatches nothing, takes the object
\* out of the registry and of hoveredObjects, nulls dragObject and
\* activeObject when they are that object, and leaves every other entry,
\* every handler and the pointer position as they were; remove called by a
\* handler is followed at once by the next step of the dispatch it was
\* called in, with dragObject and activeObject changed in the same way.
C29_RemoveSilentLocal ==
  /\ last.op = "remove"
     => LET others(x) == x # last.o
        IN /\ log = <<>>
           /\ DOMAIN interactables = DOMAIN last.pre.its \ {last.o}
           /\ \A x \in DOMAIN interactables : interactables[x] = last.pre.its[x]
           /\ hoveredObjects = SelectSeq(last.pre.hov, others)
           /\ dragObject = IF last.pre.drag = last.o THEN None ELSE last.pre.drag
           /\ activeObject = IF last.pre.act = last.o THEN None ELSE last.pre.act
           /\ eventHandlers = last.pre.eh
           /\ lastMousePosition = last.pre.pos
  /\ \A i \in 1..Len(log) :
       (log[i].t = "call" /\ Removes(log[i].h))
       => LET x == RemovedBy(log[i].h)
          IN /\ log[i + 1].t \in {"call", "ret"}
             /\ log[i + 1].k = log[i].k /\ log[i + 1].o = log[i].o
             /\ log[i + 1].drag = IF log[i].drag = x THEN None ELSE log[i].drag
             /\ log[i + 1].act = IF log[i].act = x THEN None ELSE log[i].act

C29_Witness ==
  /\ last.op = "remove"
  /\ last.o \in Elems(last.pre.hov)
  /\ PreHandlersOf(last.o, "pointerleave") # <<>>
  /\ Len(last.pre.hov) = 2
  /\ Len(hoveredObjects) = 1
  /\ last.pre.drag \notin {None, last.o}
  /\ dragObject = last.pre.drag

\* ------------------------------------------------------------ C30
\* C30: between entry-point calls, a non-null dragObject is activeObject.
C30_DragIsActive ==
  dragObject # None => activeObject = dragObject

C30_Witness ==
  /\ last.op = "pointerdown"
  /\ Len(Dispatches(log, "pointerdown")) = 2
  /\ last.pre.drag # None
  /\ dragObject \notin {None, last.pre.drag}
  /\ activeObject = dragObject

\* ------------------------------------------------------------ C31
\* whether a pointerenter handler of the observed sample called stopPropagation
EnterStopped ==
  \E i \in 1..Len(log) :
    log[i].t = "call" /\ log[i].k = "pointerenter" /\ Stops(log[i].h)

\* C31: after a pointermove sample every hovered object is registered and in
\* the sample's hit list; and when no pointerenter handler stopped its event,
\* the hovered objects are exactly the registered objects of the hit list.
C31_HoverIsHit ==
  last.op = "pointermove"
  => /\ \A o \in Elems(hoveredObjects) :
          o \in DOMAIN interactables /\ o \in Elems(HitList)
     /\ ~EnterStopped
        => Elems(hoveredObjects) = {o \in Elems(HitList) : o \in DOMAIN interactables}

C31_Witness ==
  /\ last.op = "pointermove"
  /\ ~EnterStopped
  /\ HitList = <<1, 2>>
  /\ last.pre.hov = <<>>
  /\ CallsOn(log, 1, "pointerenter") = <<"rm2">>
  /\ hoveredObjects = <<1>>

\* ------------------------------------------------------------ C32
\* object b was hit in the observed pointermove sample and is registered, but
\* got no pointerenter because the pointerenter of a nearer object was stopped
Suppressed(b) ==
  /\ last.op = "pointermove"
  /\ b \in Elems(last.ray)
  /\ b \in DOMAIN interactables
  /\ b \notin Elems(hoveredObjects)
  /\ DispatchesTo(log, "pointerenter", b) = <<>>
  /\ \E i \in 1..Len(log) :
       /\ log[i].t = "ret" /\ log[i].k = "pointerenter"
       /\ log[i].stopped /\ log[i].ret
       /\ IndexOf(last.ray, log[i].o) < IndexOf(last.ray, b)

\* the pointermove sample that comes next, with the objects of ray r hit
NextSample(r) == onPointerMove(Machine, r, Zero)

\* a pointerenter of sample N, stopped, to an object nearer than b on ray r
\* that was not hovered when N started
StoppedAgain(N, r, b) ==
  \E i \in 1..Len(N.log) :
    /\ N.log[i].t = "ret" /\ N.log[i].k = "pointerenter"
    /\ N.log[i].stopped /\ N.log[i].ret
    /\ N.log[i].o \notin Elems(hoveredObjects)
    /\ IndexOf(r, N.log[i].o) < IndexOf(r, b)

\* C32 as stated: an object whose pointerenter was suppressed in a pointermove
\* sample gets its pointerenter in the next pointermove sample that hits it.
C32_NextSampleEnters ==
  \A b \in Obj :
    Suppressed(b)
    => \A r \in EnterRays :
         LET N == NextSample(r)
         IN (b \in Elems(r) /\ b \in DOMAIN N.its)
            => DispatchesTo(N.log, "pointerenter", b) # <<>>

\* C32: an object whose pointerenter was suppressed in a pointermove sample
\* gets its pointerenter in the next pointermove sample that hits it, unless
\* in that sample the pointerenter of a nearer object that was not hovered
\* before is stopped; the objects hovered before get no pointerenter in it.
C32_EnterDelayed ==
  \A b \in Obj :
    Suppressed(b)
    => \A r \in EnterRays :
         LET N == NextSample(r)
         IN /\ (b \in Elems(r) /\ b \in DOMAIN N.its)
               => \/ DispatchesTo(N.log, "pointerenter", b) # <<>>
                  \/ StoppedAgain(N, r, b)
            /\ \A a \in Elems(hoveredObjects) :
                 DispatchesTo(N.log, "pointerenter", a) = <<>>

C32_Witness ==
  /\ Suppressed(2)
  /\ last.ray = <<1, 2>>
  /\ hoveredObjects = <<1>>
  /\ Len(DispatchesTo(NextSample(<<1, 2>>).log, "pointerenter", 2)) = 1
  /\ NextSample(<<1, 2>>).hov = <<1, 2>>

\* ------------------------------------------------------------ C33
\* C33: a pointerdown sample whose hit list is empty dispatches nothing and
\* leaves dragObject and activeObject as they were, so that the pointermove
\* sample after it dispatches the drag events it would have dispatched
\* without it: one to dragObject when that is a registered object.
C33_EmptyPointerDownKeeps ==
  (last.op = "pointerdown" /\ HitList = <<>>)
  => /\ dragObject = last.pre.drag
     /\ activeObject = last.pre.act
     /\ SelectSeq(log, IsDispatch) = <<>>
     /\ \A r \in DragRays :
          LET N == onPointerMove(Machine, r, Zero)
              P == onPointerMove(PreMachine, r, Zero)
          IN /\ Dispatches(N.log, "drag") = Dispatches(P.log, "drag")
             /\ (dragObject # None /\ dragObject \in DOMAIN interactables)
                => Len(DispatchesTo(N.log, "drag", dragObject)) = 1

C33_Witness ==
  /\ last.op = "pointerdown"
  /\ HitList = <<>>
  /\ last.ray # <<>>
  /\ last.pre.drag # None
  /\ dragObject = last.pre.drag
  /\ dragObject \in DOMAIN interactables
  /\ PreHandlersOf(dragObject, "drag") # <<>>
  /\ CallsOn(onPointerMove(Machine, <<>>, Zero).log, dragObject, "drag") # <<>>

\* ------------------------------------------------------------ C34
\* C34: when a handler invoked in the loop of a click, pointerdown, pointerup
\* or pointermove sample for one hit removes an object farther in the hit
\* list, that object is passed over as a hit without wrapper and receives no
\* event in the rest of the sample.
C34_RemovedFartherSkipped ==
  last.op \in LoopKinds
  => \A i \in 1..Len(log) :
       (/\ log[i].t = "call" /\ log[i].k = last.op
        /\ Removes(log[i].h)
        /\ IndexOf(HitList, RemovedBy(log[i].h)) > IndexOf(HitList, log[i].o))
       => \A j \in (i + 1)..Len(log) :
            log[j].o = RemovedBy(log[i].h)
            => log[j].t = "visit" /\ ~log[j].reg

C34_Witness ==
  /\ last.op = "click"
  /\ HitList = <<1, 2, 3>>
  /\ CallsOn(log, 1, "click") = <<"rm2">>
  /\ PreHandlersOf(2, "click") # <<>>
  /\ CallsOn(log, 2, "click") = <<>>
  /\ \E j \in 1..Len(log) : log[j].t = "visit" /\ log[j].o = 2 /\ ~log[j].reg
  /\ DispatchesTo(log, "click", 3) # <<>>

\* ------------------------------------------------------------ C35
\* C35: a pointerup sample dispatches pointerup events only, and only to
\* objects of its hit list; a drag target outside the hit list receives
\* nothing in it, and the pointermove sample after it dispatches no drag
\* event.
C35_PointerUpToHitsOnly ==
  last.op = "pointerup"
  => /\ \A i \in 1..Len(log) :
          log[i].k = "pointerup" /\ log[i].o \in Elems(HitList)
     /\ (last.pre.drag # None /\ last.pre.drag \notin Elems(HitList))
        => \A i \in 1..Len(log) : log[i].o # last.pre.drag
     /\ \A r \in DragRays :
          Dispatches(onPointerMove(Machine, r, Zero).log, "drag") = <<>>

C35_Witness ==
  /\ last.op = "pointerup"
  /\ last.pre.drag # None
  /\ last.pre.drag \in DOMAIN last.pre.its
  /\ last.pre.drag \notin Elems(HitList)
  /\ PreHandlersOf(last.pre.drag, "pointerup") # <<>>
  /\ Dispatches(log, "pointerup") # <<>>
  /\ dragObject = None

====
